---- MODULE Spec2Model ----
(***************************************************************************)
(* Model of the Jira issue service (src/jira_service.py): the eight        *)
(* operations of JiraService, the ticket parser and the transition         *)
(* resolution inside change_ticket_status, against a model of the          *)
(* upstream issue tracker.                                                 *)
(*                                                                         *)
(* Python values are tagged records:                                       *)
(*   None            [k |-> "none"]                                        *)
(*   str             [k |-> "str", s |-> <<characters>>]                   *)
(*   int             [k |-> "int", n |-> n]                                *)
(*   dict (JSON)     [k |-> "obj", f |-> [key |-> value or Absent]]        *)
(* Absent marks a key that is missing from a JSON object; JSON null is     *)
(* None.  Strings are sequences of one-character strings so that lower()   *)
(* and strip() are computed, not assumed.                                  *)
(***************************************************************************)
EXTENDS Integers, Sequences, FiniteSets, TLC

VARIABLES status, workflow, pc, call, log, outcome, status0, lastListed,
          raw, parsed, via, received, answered

vars == <<status, workflow, pc, call, log, outcome, status0, lastListed,
          raw, parsed, via, received, answered>>

-----------------------------------------------------------------------------
(* Bounds of the model *)

\* longest list of transitions the upstream offers for a ticket
MaxTrans == 2

-----------------------------------------------------------------------------
(* Python values *)

None == [k |-> "none"]
Absent == [k |-> "absent"]
Str(s) == [k |-> "str", s |-> s]
PyInt(n) == [k |-> "int", n |-> n]
Obj(f) == [k |-> "obj", f |-> f]
PyList(items) == [k |-> "list", items |-> items]

\* Python truthiness (bool(v)) of the values the service tests
Truthy(v) ==
  CASE v.k = "none" -> FALSE
    [] v.k = "str"  -> v.s # <<>>
    [] v.k = "int"  -> v.n # 0
    [] v.k = "obj"  -> \E key \in DOMAIN v.f : v.f[key] # Absent
    [] OTHER        -> TRUE

\* dict.get(key): None when the key is missing (JSON null is None already)
Get(d, key) == IF d.f[key] = Absent THEN None ELSE d.f[key]

\* dict.get(key, default): the default only when the key is missing
GetOr(d, key, default) == IF d.f[key] = Absent THEN default ELSE d.f[key]

UpperLetters == <<"A","B","C","D","E","F","G","H","I","J","K","L","M",
                  "N","O","P","Q","R","S","T","U","V","W","X","Y","Z">>
LowerLetters == <<"a","b","c","d","e","f","g","h","i","j","k","l","m",
                  "n","o","p","q","r","s","t","u","v","w","x","y","z">>

LowerChar(c) ==
  IF \E i \in 1..26 : UpperLetters[i] = c
  THEN LowerLetters[CHOOSE i \in 1..26 : UpperLetters[i] = c]
  ELSE c

\* str.lower() on the characters of a string
Lower(s) == [i \in 1..Len(s) |-> LowerChar(s[i])]

Whitespace == {" ", "\t", "\n"}

RECURSIVE LStrip(_)
LStrip(s) ==
  IF s # <<>> /\ Head(s) \in Whitespace THEN LStrip(Tail(s)) ELSE s

RECURSIVE RStrip(_)
RStrip(s) ==
  IF s # <<>> /\ s[Len(s)] \in Whitespace
  THEN RStrip(SubSeq(s, 1, Len(s) - 1)) ELSE s

\* str.strip()
Strip(s) == RStrip(LStrip(s))

\* the test without the strip() part
BlankNoStrip(x) == ~Truthy(x)

\* "not x or not x.strip()": the test every operation applies to a
\* required string argument
Blank(x) == (~Truthy(x)) \/ (~Truthy(Str(Strip(x.s))))

\* results of a call: a returned value or a raised exception
Return(v) == [k |-> "return", v |-> v]
Raise(exc, msg) == [k |-> "raise", exc |-> exc, msg |-> msg]

\* ValueError(f"{param} is required")
Required(param) == Raise("ValueError", [fmt |-> "required", param |-> param])

AttributeError == Raise("AttributeError", [fmt |-> "nonetype"])

-----------------------------------------------------------------------------
(* Ticket parser: JiraService._parse_ticket *)

EmptyFields ==
  Obj([summary |-> Absent, description |-> Absent, status |-> Absent,
       priority |-> Absent, issuetype |-> Absent, assignee |-> Absent,
       reporter |-> Absent, created |-> Absent, updated |-> Absent])

\* Status(name=..., description=...) or None
ParseStatus(fields_data) ==
  IF Truthy(Get(fields_data, "status"))
  THEN [k |-> "Status",
        name |-> Get(Get(fields_data, "status"), "name"),
        description |-> Get(Get(fields_data, "status"), "description")]
  ELSE None

ParsePriority(fields_data) ==
  IF Truthy(Get(fields_data, "priority"))
  THEN [k |-> "Priority", name |-> Get(Get(fields_data, "priority"), "name")]
  ELSE None

ParseIssueType(fields_data) ==
  IF Truthy(Get(fields_data, "issuetype"))
  THEN [k |-> "IssueType",
        name |-> Get(Get(fields_data, "issuetype"), "name"),
        description |-> Get(Get(fields_data, "issuetype"), "description")]
  ELSE None

\* User(display_name=..., email_address=...) or None, for assignee/reporter
ParseUser(fields_data, key) ==
  IF Truthy(Get(fields_data, key))
  THEN [k |-> "User",
        display_name |-> Get(Get(fields_data, key), "displayName"),
        email_address |-> Get(Get(fields_data, key), "emailAddress")]
  ELSE None

ParseFields(fields_data) ==
  [k |-> "Fields",
   summary |-> Get(fields_data, "summary"),
   description |-> Get(fields_data, "description"),
   status |-> ParseStatus(fields_data),
   priority |-> ParsePriority(fields_data),
   issuetype |-> ParseIssueType(fields_data),
   assignee |-> ParseUser(fields_data, "assignee"),
   reporter |-> ParseUser(fields_data, "reporter"),
   created |-> Get(fields_data, "created"),
   updated |-> Get(fields_data, "updated")]

\* fields_data = data.get("fields", {}): an explicit null is returned as
\* None, and the first fields_data.get(...) then raises AttributeError
ParseTicket(data) ==
  LET fields_data == GetOr(data, "fields", EmptyFields)
  IN IF fields_data = None
     THEN AttributeError
     ELSE Return([k |-> "JiraTicket",
                  id |-> Get(data, "id"),
                  key |-> Get(data, "key"),
                  self |-> Get(data, "self"),
                  fields |-> ParseFields(fields_data)])

-----------------------------------------------------------------------------
(* Transitions: the projection of get_available_transitions and the       *)
(* resolution loop of change_ticket_status                                 *)

EmptyTo == Obj([name |-> Absent, description |-> Absent])

\* transition.get("to", {}) is None for an explicit null, and .get on it
\* raises AttributeError
ProjectionCrashes(transition) == GetOr(transition, "to", EmptyTo) = None

\* the dict appended for one upstream transition
ProjectTransition(transition) ==
  [id |-> Get(transition, "id"),
   name |-> Get(transition, "name"),
   to |-> [name |-> Get(GetOr(transition, "to", EmptyTo), "name"),
           description |->
             Get(GetOr(transition, "to", EmptyTo), "description")]]

\* a projection that returns the list in reverse order
ProjectTransitionsReversed(data) ==
  LET ts == GetOr(data, "transitions", PyList(<<>>)).items
  IN IF \E i \in 1..Len(ts) : ProjectionCrashes(ts[i])
     THEN AttributeError
     ELSE Return([i \in 1..Len(ts) |->
                    ProjectTransition(ts[Len(ts) + 1 - i])])

\* the loop over data.get("transitions", []): the list in upstream order
ProjectTransitions(data) ==
  LET ts == GetOr(data, "transitions", PyList(<<>>)).items
  IN IF \E i \in 1..Len(ts) : ProjectionCrashes(ts[i])
     THEN AttributeError
     ELSE Return([i \in 1..Len(ts) |-> ProjectTransition(ts[i])])

\* the condition of the loop body for one transition: "hit", "miss", or
\* "crash" when .lower() is called on a None name.  Python evaluates
\* to.name first and the action name only when to.name did not match.
MatchEval(transition, status_name) ==
  IF transition.to.name = None THEN "crash"
  ELSE IF Lower(transition.to.name.s) = Lower(status_name.s) THEN "hit"
  ELSE IF transition.name = None THEN "crash"
  ELSE IF Lower(transition.name.s) = Lower(status_name.s) THEN "hit"
  ELSE "miss"

\* the for loop with break, from index i on: the index of target_transition,
\* 0 when the loop ends with target_transition = None, -1 when it raises
RECURSIVE ScanFrom(_, _, _)
ScanFrom(transitions, status_name, i) ==
  IF i > Len(transitions) THEN 0
  ELSE CASE MatchEval(transitions[i], status_name) = "crash" -> -1
         [] MatchEval(transitions[i], status_name) = "hit"   -> i
         [] OTHER -> ScanFrom(transitions, status_name, i + 1)

FindTransition(transitions, status_name) ==
  ScanFrom(transitions, status_name, 1)

\* ValueError("Status '...' not available for ticket ... Available
\* statuses: [...]. Available transitions: [...]")
NotAvailable(ticket_key, status_name, transitions) ==
  Raise("ValueError",
        [fmt |-> "not_available",
         status_name |-> status_name,
         ticket_key |-> ticket_key,
         available_statuses |->
           [i \in 1..Len(transitions) |-> transitions[i].to.name],
         available_transitions |->
           [i \in 1..Len(transitions) |-> transitions[i].name]])

-----------------------------------------------------------------------------
(* Strings of the model *)

P1 == Str(<<"P","-","1">>)
P2 == Str(<<"P","-","2">>)
Tickets == {P1, P2}

Open == Str(<<"O","p","e","n">>)
Done == Str(<<"D","o","n","e">>)
StatusNames == {Open, Done}

Close == Str(<<"C","l","o","s","e">>)

\* the f-string pieces of the canned queries
TextPrefix == <<"t","e","x","t"," ","~"," ","\"">>
TextSuffix == <<"\""," ","O","R","D","E","R"," ","B","Y"," ","u","p","d","a","t","e","d"," ","D","E","S","C">>
ProjectPrefix == <<"p","r","o","j","e","c","t"," ","="," ">>
OrderSuffix == <<" ","O","R","D","E","R"," ","B","Y"," ","u","p","d","a","t","e","d"," ","D","E","S","C">>
AssignedJql == <<"a","s","s","i","g","n","e","e"," ","="," ","c","u","r","r","e","n","t","U","s","e","r","(",")"," ","O","R","D","E","R"," ","B","Y"," ","u","p","d","a","t","e","d"," ","D","E","S","C">>
\* a recency query without the ordering directive
RecentJqlUnordered == <<"u","p","d","a","t","e","d"," ",">","="," ","-","7","d">>
RecentJql == <<"u","p","d","a","t","e","d"," ",">","="," ","-","7","d"," ","O","R","D","E","R"," ","B","Y"," ","u","p","d","a","t","e","d"," ","D","E","S","C">>

-----------------------------------------------------------------------------
(* The upstream issue tracker *)

\* transitions the upstream workflow may offer (raw JSON objects)
RawTransition(id, name, to) == Obj([id |-> id, name |-> name, to |-> to])
RawTo(name) == Obj([name |-> name, description |-> Absent])

Pool ==
  { RawTransition(Str(<<"1","1">>), Close, RawTo(Done)),
    RawTransition(Str(<<"2","1">>), Done, RawTo(Open)),
    RawTransition(Str(<<"3","1">>), None, RawTo(Done)),
    RawTransition(Str(<<"4","1">>), Close, Absent),
    RawTransition(Str(<<"5","1">>), Close, None) }

Workflows == UNION { [1..n -> Pool] : n \in 0..MaxTrans }

\* transition ids are per ticket: the id offered for a ticket ends with the
\* last character of its key
TicketTransition(key, t) ==
  Obj([t.f EXCEPT !.id = Str(@.s \o <<key.s[Len(key.s)]>>)])

TransitionsOf(wf, key) == [i \in 1..Len(wf) |-> TicketTransition(key, wf[i])]

Summary(key) == Str(<<"S">> \o key.s)

\* a sub-object of the raw issue: missing key, JSON null, or the object
Sub(kind, object) ==
  CASE kind = "absent" -> Absent
    [] kind = "null"   -> None
    [] OTHER           -> object

SubNames == {"status", "priority", "issuetype", "assignee", "reporter"}
Kinds == {"absent", "null", "present"}
AllPresent == [n \in SubNames |-> "present"]

\* the raw issue the upstream returns for a ticket whose status is st
RawIssue(key, st, fieldsKind, kinds) ==
  Obj([id |-> Str(<<"1","0">> \o key.s),
       key |-> key,
       self |-> Str(<<"/">> \o key.s),
       fields |-> Sub(fieldsKind,
         Obj([summary |-> Summary(key),
              description |-> None,
              status |-> Sub(kinds["status"],
                             Obj([name |-> st, description |-> Absent])),
              priority |-> Sub(kinds["priority"],
                               Obj([name |-> Str(<<"H">>)])),
              issuetype |-> Sub(kinds["issuetype"],
                                Obj([name |-> Str(<<"B">>),
                                     description |-> None])),
              assignee |-> Sub(kinds["assignee"],
                               Obj([displayName |-> Str(<<"A">>),
                                    emailAddress |-> Absent])),
              reporter |-> Sub(kinds["reporter"],
                               Obj([displayName |-> Str(<<"R">>),
                                    emailAddress |-> Str(<<"r","@">>)])),
              created |-> Str(<<"c">>),
              updated |-> Str(<<"u">>)]))])

Resp(code, body) == [k |-> "http", code |-> code, body |-> body]
TimeoutResp == [k |-> "timeout", code |-> 0, body |-> None]

GetFaults == {"ok", "error", "timeout"}
IssueFaults == {"ok", "error", "timeout", "no_status", "null_fields"}
PostFaults == {"ok", "ok200", "error", "timeout_lost", "timeout_applied"}

\* GET /issue/{key}
UpstreamGetIssue(st, key, fault) ==
  CASE fault = "timeout" -> TimeoutResp
    [] fault = "error"   -> Resp(500, None)
    [] key \notin Tickets -> Resp(404, None)
    [] fault = "no_status" ->
         Resp(200, RawIssue(key, st[key], "present",
                            [AllPresent EXCEPT !["status"] = "absent"]))
    [] fault = "null_fields" ->
         Resp(200, RawIssue(key, st[key], "null", AllPresent))
    [] OTHER -> Resp(200, RawIssue(key, st[key], "present", AllPresent))

\* GET /issue/{key}/transitions
UpstreamGetTransitions(wf, key, fault) ==
  CASE fault = "timeout" -> TimeoutResp
    [] fault = "error"   -> Resp(500, None)
    [] key \notin Tickets -> Resp(404, None)
    [] OTHER ->
         Resp(200, Obj([transitions |-> PyList(TransitionsOf(wf, key))]))

Min(a, b) == IF a < b THEN a ELSE b

TicketOrder == <<P1, P2>>

\* GET /search?jql=&maxResults=
UpstreamSearch(st, jql, maxResults, fault) ==
  CASE fault = "timeout" -> TimeoutResp
    [] fault = "error"   -> Resp(500, None)
    [] OTHER ->
         Resp(200, Obj([issues |-> PyList(
           [i \in 1..Min(maxResults, Len(TicketOrder)) |->
              RawIssue(TicketOrder[i], st[TicketOrder[i]], "present",
                       AllPresent)])]))

\* POST /issue/{key}/transitions {transition: {id}}: the response and the
\* ticket statuses afterwards.  The transition is executed when the
\* upstream answers 204, and may have been executed when the call timed out.
UpstreamPost(st, wf, key, id, fault) ==
  LET offered == IF key \in Tickets THEN TransitionsOf(wf, key) ELSE <<>>
      hits == {i \in 1..Len(offered) :
                 /\ Get(offered[i], "id") = id
                 /\ ~ProjectionCrashes(offered[i])
                 /\ ProjectTransition(offered[i]).to.name # None}
      target == ProjectTransition(offered[CHOOSE i \in hits :
                                    \A j \in hits : i <= j]).to.name
  IN CASE fault = "timeout_lost" -> [resp |-> TimeoutResp, status |-> st]
       [] fault = "error" -> [resp |-> Resp(500, None), status |-> st]
       [] key \notin Tickets -> [resp |-> Resp(404, None), status |-> st]
       [] hits = {} -> [resp |-> Resp(400, None), status |-> st]
       [] fault = "ok200" -> [resp |-> Resp(200, None), status |-> st]
       [] fault = "timeout_applied" ->
            [resp |-> TimeoutResp, status |-> [st EXCEPT ![key] = target]]
       [] OTHER ->
            [resp |-> Resp(204, None), status |-> [st EXCEPT ![key] = target]]

-----------------------------------------------------------------------------
(* The operations of JiraService.  Each takes the upstream state and the   *)
(* way the upstream answers (fault) and yields the caller's outcome and    *)
(* the upstream calls made, in order.                                      *)

\* one upstream call: the request and its response
Entry(method, path, key, jql, maxResults, id, resp) ==
  [method |-> method, path |-> path, key |-> key, jql |-> jql,
   maxResults |-> maxResults, id |-> id,
   resp |-> resp]

HTTPError(code) == Raise("HTTPError", [fmt |-> "status", code |-> code])
Timeout == Raise("Timeout", [fmt |-> "timeout"])

\* response.raise_for_status() raises for 4xx and 5xx
RaisesForStatus(resp) == resp.code >= 400 /\ resp.code < 600

Result(out, calls, st) == [outcome |-> out, log |-> calls, status |-> st]

\* get_ticket
GetTicket(st, ticket_key, fault) ==
  IF Blank(ticket_key) THEN Result(Required("ticket_key"), <<>>, st)
  ELSE LET response == UpstreamGetIssue(st, ticket_key, fault)
           calls == <<Entry("GET", "issue", ticket_key, None, None, None,
                            response)>>
       IN IF response.k = "timeout" THEN Result(Timeout, calls, st)
          ELSE IF RaisesForStatus(response)
               THEN Result(HTTPError(response.code), calls, st)
               ELSE Result(ParseTicket(response.body), calls, st)

\* the parsed tickets of a search response, or the first parser failure
ParseIssues(issues) ==
  IF \E i \in 1..Len(issues) : ParseTicket(issues[i]).k = "raise"
  THEN AttributeError
  ELSE Return([i \in 1..Len(issues) |-> ParseTicket(issues[i]).v])

\* the default of max_results
DefaultLimit == 50

\* "max_results or 50": the default also replaces a limit of 0
SearchLimitTruthy(max_results) ==
  IF Truthy(max_results) THEN max_results.n ELSE DefaultLimit

\* limit = max_results if max_results is not None else 50
SearchLimit(max_results) ==
  IF max_results # None THEN max_results.n ELSE DefaultLimit

\* search_tickets
SearchTickets(st, jql_query, max_results, fault) ==
  IF Blank(jql_query) THEN Result(Required("jql_query"), <<>>, st)
  ELSE LET limit == SearchLimit(max_results)
           response == UpstreamSearch(st, jql_query, limit, fault)
           calls == <<Entry("GET", "search", None, jql_query, PyInt(limit),
                            None, response)>>
       IN IF response.k = "timeout" THEN Result(Timeout, calls, st)
          ELSE IF RaisesForStatus(response)
               THEN Result(HTTPError(response.code), calls, st)
               ELSE Result(ParseIssues(
                             GetOr(response.body, "issues",
                                   PyList(<<>>)).items),
                           calls, st)

\* search_tickets_by_text
SearchTicketsByText(st, text, max_results, fault) ==
  IF Blank(text) THEN Result(Required("text"), <<>>, st)
  ELSE SearchTickets(st, Str(TextPrefix \o text.s \o TextSuffix),
                     max_results, fault)

\* get_tickets_by_project
GetTicketsByProject(st, project_key, max_results, fault) ==
  IF Blank(project_key) THEN Result(Required("project_key"), <<>>, st)
  ELSE SearchTickets(st, Str(ProjectPrefix \o project_key.s \o OrderSuffix),
                     max_results, fault)

\* get_my_assigned_tickets
GetMyAssignedTickets(st, max_results, fault) ==
  SearchTickets(st, Str(AssignedJql), max_results, fault)

\* get_recently_updated_tickets
GetRecentlyUpdatedTickets(st, max_results, fault) ==
  SearchTickets(st, Str(RecentJql), max_results, fault)

\* get_available_transitions
GetAvailableTransitions(st, wf, ticket_key, fault) ==
  IF Blank(ticket_key) THEN Result(Required("ticket_key"), <<>>, st)
  ELSE LET response == UpstreamGetTransitions(wf, ticket_key, fault)
           calls == <<Entry("GET", "transitions", ticket_key, None, None,
                            None, response)>>
       IN IF response.k = "timeout" THEN Result(Timeout, calls, st)
          ELSE IF RaisesForStatus(response)
               THEN Result(HTTPError(response.code), calls, st)
               ELSE Result(ProjectTransitions(response.body), calls, st)

\* a record that reports the requested name as the ticket's status
SuccessRecordRequested(status_name, updated_ticket) ==
  [success |-> TRUE,
   message |-> [fmt |-> "changed_to", status_name |-> status_name],
   ticket |-> [key |-> updated_ticket.key,
               status |-> status_name,
               summary |-> IF updated_ticket.fields # None
                           THEN updated_ticket.fields.summary ELSE None]]

\* the dict returned after a 204 and a successful re-fetch
SuccessRecord(status_name, updated_ticket) ==
  [success |-> TRUE,
   message |-> [fmt |-> "changed_to", status_name |-> status_name],
   ticket |-> [key |-> updated_ticket.key,
               status |-> IF updated_ticket.fields # None
                             /\ updated_ticket.fields.status # None
                          THEN updated_ticket.fields.status.name ELSE None,
               summary |-> IF updated_ticket.fields # None
                           THEN updated_ticket.fields.summary ELSE None]]

UnknownErrorRecordTrue ==
  [success |-> TRUE, message |-> [fmt |-> "unknown_error"]]

\* {"success": False, "message": "Unknown error occurred"}
UnknownErrorRecord ==
  [success |-> FALSE, message |-> [fmt |-> "unknown_error"]]

\* tests for the acknowledgement that accept 200, or any non-error status
Acknowledged200(response) == response.code = 200
AcknowledgedAny(response) == response.code < 400

\* a server error taken as acknowledged, so that the re-fetch follows it
AcknowledgedRetry(response) == response.code = 204 \/ response.code >= 500

\* response.status_code == 204
Acknowledged(response) == response.code = 204

\* a payload that carries the action name instead of the id
TransitionPayloadName(target_transition) == target_transition.name

\* payload["transition"]["id"]
TransitionPayload(target_transition) == target_transition.id

\* the part of change_ticket_status after the POST was answered
AfterPost(ticket_key, status_name, calls, post, faults) ==
  IF post.resp.k = "timeout" THEN Result(Timeout, calls, post.status)
  ELSE IF Acknowledged(post.resp)
       THEN LET got == GetTicket(post.status, ticket_key, faults.issue)
            IN IF got.outcome.k = "raise"
               THEN Result(got.outcome, calls \o got.log, post.status)
               ELSE Result(Return(SuccessRecord(status_name, got.outcome.v)),
                           calls \o got.log, post.status)
       ELSE IF RaisesForStatus(post.resp)
            THEN Result(HTTPError(post.resp.code), calls, post.status)
            ELSE Result(Return(UnknownErrorRecord), calls, post.status)

\* change_ticket_status
ChangeTicketStatus(st, wf, ticket_key, status_name, faults) ==
  IF Blank(ticket_key) THEN Result(Required("ticket_key"), <<>>, st)
  ELSE IF Blank(status_name) THEN Result(Required("status_name"), <<>>, st)
  ELSE LET fetched == GetAvailableTransitions(st, wf, ticket_key,
                                              faults.transitions)
       IN IF fetched.outcome.k = "raise" THEN fetched
          ELSE LET transitions == fetched.outcome.v
                   index == FindTransition(transitions, status_name)
               IN IF index = -1
                  THEN Result(AttributeError, fetched.log, st)
                  ELSE IF index = 0
                  THEN Result(NotAvailable(ticket_key, status_name,
                                           transitions),
                              fetched.log, st)
                  ELSE LET post == UpstreamPost(st, wf, ticket_key,
                                                TransitionPayload(
                                                  transitions[index]),
                                                faults.post)
                           calls == fetched.log \o
                             <<Entry("POST", "transitions", ticket_key,
                                     None, None,
                                     TransitionPayload(transitions[index]),
                                     post.resp)>>
                       IN AfterPost(ticket_key, status_name, calls, post,
                                    faults)

-----------------------------------------------------------------------------
(* Arguments the callers supply *)

KeyArgs == {None, Str(<<>>), Str(<<" ", "\t">>), P1, P2}
StatusArgs == {None, Str(<<>>), Str(<<" ">>), Str(<<"d","o","n","e">>),
               Str(<<"C","L","O","S","E">>), Str(<<"N","o","p","e">>)}
JqlArgs == {None, Str(<<" ">>), Str(<<"k","e","y"," ","="," ","P","-","1">>)}
TextArgs == {None, Str(<<"\n">>), Str(<<"b","u","g">>)}
ProjectArgs == {None, Str(<<>>), Str(<<"P">>)}
LimitArgs == {None, PyInt(0), PyInt(5)}

NoCall == [op |-> "none", ticket_key |-> None, status_name |-> None,
           jql_query |-> None, text |-> None, project_key |-> None,
           max_results |-> None]

\* the raw issues the parser is applied to: every combination of missing,
\* null and present sub-objects
RawIssues ==
  { RawIssue(P1, Open, "present", kinds) : kinds \in [SubNames -> Kinds] }
  \cup { RawIssue(P1, Open, "absent", AllPresent),
         RawIssue(P1, Open, "null", AllPresent) }

-----------------------------------------------------------------------------
(* The service behind the front ends: the operation a front end calls,     *)
(* with the answers the upstream gives to the calls it makes               *)

\* the answers of the upstream to the calls of one invocation; a later
\* call is made only when the one before it was answered well
FaultPlans(op) ==
  CASE op = "change_ticket_status" ->
         { f \in [transitions : GetFaults,
                  post : PostFaults \ {"timeout_lost"},
                  issue : GetFaults, search : {"ok"}] :
             /\ f.transitions # "ok" => f.post = "ok"
             /\ f.post # "ok" => f.issue = "ok" }
    [] op = "get_ticket" ->
         [transitions : {"ok"}, post : {"ok"}, issue : GetFaults,
          search : {"ok"}]
    [] op = "get_available_transitions" ->
         [transitions : GetFaults, post : {"ok"}, issue : {"ok"},
          search : {"ok"}]
    [] op = "none" ->
         [transitions : {"ok"}, post : {"ok"}, issue : {"ok"},
          search : {"ok"}]
    [] OTHER ->
         [transitions : {"ok"}, post : {"ok"}, issue : {"ok"},
          search : GetFaults]

\* jira_service.<op>(...) as the front ends call it
ServiceCall(c, st, wf, faults) ==
  CASE c.op = "get_ticket" -> GetTicket(st, c.ticket_key, faults.issue)
    [] c.op = "search_tickets" ->
         SearchTickets(st, c.jql_query, c.max_results, faults.search)
    [] c.op = "search_tickets_by_text" ->
         SearchTicketsByText(st, c.text, c.max_results, faults.search)
    [] c.op = "get_tickets_by_project" ->
         GetTicketsByProject(st, c.project_key, c.max_results,
                             faults.search)
    [] c.op = "get_my_assigned_tickets" ->
         GetMyAssignedTickets(st, c.max_results, faults.search)
    [] c.op = "get_recently_updated_tickets" ->
         GetRecentlyUpdatedTickets(st, c.max_results, faults.search)
    [] c.op = "get_available_transitions" ->
         GetAvailableTransitions(st, wf, c.ticket_key, faults.transitions)
    [] c.op = "change_ticket_status" ->
         ChangeTicketStatus(st, wf, c.ticket_key, c.status_name, faults)
    [] OTHER -> Result(None, <<>>, st)

-----------------------------------------------------------------------------
(* Ticket projections of the HTTP server                                   *)

\* format_ticket_summary
FormatTicketSummary(ticket) ==
  [key |-> ticket.key,
   id |-> ticket.id,
   summary |-> IF Truthy(ticket.fields) THEN ticket.fields.summary
               ELSE None,
   status |-> IF Truthy(ticket.fields) /\ Truthy(ticket.fields.status)
              THEN ticket.fields.status.name ELSE None,
   assignee |-> IF Truthy(ticket.fields) /\ Truthy(ticket.fields.assignee)
                THEN ticket.fields.assignee.display_name ELSE None,
   updated |-> IF Truthy(ticket.fields) THEN ticket.fields.updated
               ELSE None]

\* the displayName/emailAddress record of a user, or None
FormatUser(ticket, role) ==
  IF Truthy(ticket.fields) /\ Truthy(ticket.fields[role])
  THEN [displayName |-> ticket.fields[role].display_name,
        emailAddress |-> ticket.fields[role].email_address]
  ELSE None

\* format_ticket_detailed
FormatTicketDetailed(ticket) ==
  [key |-> ticket.key,
   id |-> ticket.id,
   self |-> ticket.self,
   summary |-> IF Truthy(ticket.fields) THEN ticket.fields.summary
               ELSE None,
   description |-> IF Truthy(ticket.fields) THEN ticket.fields.description
                   ELSE None,
   status |-> IF Truthy(ticket.fields) /\ Truthy(ticket.fields.status)
              THEN ticket.fields.status.name ELSE None,
   priority |-> IF Truthy(ticket.fields) /\ Truthy(ticket.fields.priority)
                THEN ticket.fields.priority.name ELSE None,
   issuetype |-> IF Truthy(ticket.fields) /\ Truthy(ticket.fields.issuetype)
                 THEN ticket.fields.issuetype.name ELSE None,
   assignee |-> FormatUser(ticket, "assignee"),
   reporter |-> FormatUser(ticket, "reporter"),
   created |-> IF Truthy(ticket.fields) THEN ticket.fields.created
               ELSE None,
   updated |-> IF Truthy(ticket.fields) THEN ticket.fields.updated
               ELSE None]

\* the value a handler builds from what the service returned
FormatResult(op, v) ==
  CASE op = "get_ticket" -> FormatTicketDetailed(v)
    [] op = "get_available_transitions" -> [transitions |-> v]
    [] op = "change_ticket_status" -> v
    [] OTHER -> [i \in 1..Len(v) |-> FormatTicketSummary(v[i])]

-----------------------------------------------------------------------------
(* HTTP routes of http_jira_server                                         *)

\* limit: int = Query(default=10)
RouteDefaultLimit == 10

\* a limit parameter that ignores what the query string carries
RouteLimitFixed(limit) == PyInt(RouteDefaultLimit)

\* the value of the limit parameter: the query string's, or the default
RouteLimit(limit) ==
  IF limit = Absent THEN PyInt(RouteDefaultLimit) ELSE limit

\* a route request: the route, its path and query parameters, its body
NoRequest == [route |-> "none", ticket_key |-> Absent, jql |-> Absent,
              text |-> Absent, project_key |-> Absent, limit |-> Absent,
              body |-> Absent]

\* the HTTP answer: a status code and a JSON body
HttpResponse(status_code, body) ==
  [status_code |-> status_code, body |-> body]

\* HTTPException(status_code=..., detail=...)
HTTPException(status_code, detail) ==
  Raise("HTTPException",
        [fmt |-> "http_exception", status_code |-> status_code,
         detail |-> detail])

\* the answer FastAPI gives for an HTTPException that leaves the handler
ExceptionResponse(e) ==
  HttpResponse(e.msg.status_code, [detail |-> e.msg.detail])

StatusRequired == [fmt |-> "status_required"]

\* "except Exception": every failure of a GET route becomes a 500
CatchAll(e) == HTTPException(500, e.msg)

\* an except chain without the ValueError clause
CatchValueErrorAsServerError(e) == HTTPException(500, e.msg)

\* "except ValueError ... except Exception" of the change-status route
CatchValueError(e) ==
  IF e.exc = "ValueError" THEN HTTPException(400, e.msg)
  ELSE HTTPException(500, e.msg)

\* the service call a route makes, NoCall when it makes none
RouteCall(req) ==
  CASE req.route = "get_recently_updated_tickets" ->
         [NoCall EXCEPT !.op = req.route,
                        !.max_results = RouteLimit(req.limit)]
    [] req.route = "get_my_assigned_tickets" ->
         [NoCall EXCEPT !.op = req.route,
                        !.max_results = RouteLimit(req.limit)]
    [] req.route = "get_tickets_by_project" ->
         [NoCall EXCEPT !.op = req.route,
                        !.project_key = req.project_key,
                        !.max_results = RouteLimit(req.limit)]
    [] req.route = "search_tickets" ->
         [NoCall EXCEPT !.op = req.route, !.jql_query = req.jql,
                        !.max_results = RouteLimit(req.limit)]
    [] req.route = "search_tickets_by_text" ->
         [NoCall EXCEPT !.op = req.route, !.text = req.text,
                        !.max_results = RouteLimit(req.limit)]
    [] req.route = "get_ticket" ->
         [NoCall EXCEPT !.op = req.route, !.ticket_key = req.ticket_key]
    [] req.route = "get_available_transitions" ->
         [NoCall EXCEPT !.op = req.route, !.ticket_key = req.ticket_key]
    [] req.route = "change_ticket_status" ->
         IF ~Truthy(Get(req.body, "status")) THEN NoCall
         ELSE [NoCall EXCEPT !.op = req.route,
                             !.ticket_key = req.ticket_key,
                             !.status_name = Get(req.body, "status")]
    [] OTHER -> NoCall

\* the answer of a route whose service call ended with out (None when no
\* call was made)
RouteResponse(req, out) ==
  IF req.route = "change_ticket_status"
  THEN IF ~Truthy(Get(req.body, "status"))
       THEN ExceptionResponse(CatchValueError(
                                HTTPException(400, StatusRequired)))
       ELSE IF out.k = "raise"
            THEN ExceptionResponse(CatchValueError(out))
            ELSE HttpResponse(200, FormatResult(req.route, out.v))
  ELSE IF out.k = "raise"
       THEN ExceptionResponse(CatchAll(out))
       ELSE HttpResponse(200, FormatResult(req.route, out.v))

-----------------------------------------------------------------------------
(* JSON-RPC endpoint of http_jira_server: mcp_rpc_endpoint                 *)

\* a name carried as a JSON string (method and tool names)
Name(n) == [k |-> "str", name |-> n]

MethodNotFound == -32601
InternalError == -32603

\* the envelope returned to the caller; the member left out is Absent
Envelope(id, result, error) ==
  [jsonrpc |-> "2.0", id |-> id, result |-> result, error |-> error]

ErrorObject(code, message) == [code |-> code, message |-> message]

\* an unknown tool reported with the internal-error code
UnknownToolInternal(request_id, tool_name) ==
  Envelope(request_id, Absent,
           ErrorObject(InternalError,
                       [fmt |-> "unknown_tool", tool_name |-> tool_name]))

\* the answer to a tools/call that names no known tool
UnknownTool(request_id, tool_name) ==
  Envelope(request_id, Absent,
           ErrorObject(MethodNotFound,
                       [fmt |-> "unknown_tool", tool_name |-> tool_name]))

\* the answer to a method that is none of the three
UnknownMethod(request_id, method) ==
  Envelope(request_id, Absent,
           ErrorObject(MethodNotFound,
                       [fmt |-> "method_not_found", method |-> method]))

\* an answer of the except clause that leaves the id out
InternalErrorNoId(req, e) ==
  Envelope(Absent, Absent,
           ErrorObject(InternalError, [fmt |-> "internal", e |-> e.msg]))

\* the answer of the except clause
InternalErrorEnvelope(req, e) ==
  Envelope(Get(req, "id"), Absent,
           ErrorObject(InternalError, [fmt |-> "internal", e |-> e.msg]))

\* json.dumps(result, indent=2): the text that encodes the value
JsonDumps(v) == [k |-> "json_text", of |-> v]

\* the result member of a tools/call answer
ToolResult(result) ==
  [content |-> <<[type |-> "text", text |-> JsonDumps(result)]>>]

InitializeResult ==
  [protocolVersion |-> "2024-11-05",
   capabilities |-> [tools |-> "{}", logging |-> "{}"],
   serverInfo |-> [name |-> "jira-http-server", version |-> "1.0.0"]]

\* the names of the tools, with the service operation each one calls
ToolOps ==
  [get_ticket |-> "get_ticket",
   search_tickets |-> "search_tickets",
   search_tickets_by_text |-> "search_tickets_by_text",
   get_tickets_by_project |-> "get_tickets_by_project",
   get_my_assigned_tickets |-> "get_my_assigned_tickets",
   get_recently_updated_tickets |-> "get_recently_updated_tickets",
   get_ticket_transitions |-> "get_available_transitions",
   change_ticket_status |-> "change_ticket_status"]

ToolNames == { Name(n) : n \in DOMAIN ToolOps }

\* the schema list returned by tools/list
ToolsListResult == [tools |-> DOMAIN ToolOps]

EmptyParams == Obj([name |-> Absent, arguments |-> Absent])
EmptyArguments ==
  Obj([ticket_key |-> Absent, status_name |-> Absent, jql_query |-> Absent,
       text |-> Absent, project_key |-> Absent, max_results |-> Absent])

\* params = request.get("params", {})
ParamsOf(req) == GetOr(req, "params", EmptyParams)

\* arguments = params.get("arguments", {})
ArgumentsOf(req) == GetOr(ParamsOf(req), "arguments", EmptyArguments)

\* the request is a tools/call that reaches the dispatch on the tool name
IsToolsCall(req) ==
  Get(req, "method") = Name("tools/call") /\ ParamsOf(req) # None

\* the request is dispatched to a service operation
Dispatched(req) ==
  /\ IsToolsCall(req)
  /\ Get(ParamsOf(req), "name") \in ToolNames
  /\ ArgumentsOf(req) # None

\* the service call of a tools/call: arguments.get(...) for each argument
ToolCall(tool_name, arguments) ==
  [op |-> ToolOps[tool_name.name],
   ticket_key |-> Get(arguments, "ticket_key"),
   status_name |-> Get(arguments, "status_name"),
   jql_query |-> Get(arguments, "jql_query"),
   text |-> Get(arguments, "text"),
   project_key |-> Get(arguments, "project_key"),
   max_results |-> Get(arguments, "max_results")]

\* the arguments an operation is called with; the positions it does not
\* take stay None
ArgsOf(op) ==
  CASE op \in {"get_ticket", "get_available_transitions"} -> {"ticket_key"}
    [] op = "change_ticket_status" -> {"ticket_key", "status_name"}
    [] op = "search_tickets" -> {"jql_query", "max_results"}
    [] op = "search_tickets_by_text" -> {"text", "max_results"}
    [] op = "get_tickets_by_project" -> {"project_key", "max_results"}
    [] OTHER -> {"max_results"}

\* the service call the endpoint makes, NoCall when it makes none
RpcCall(req) ==
  IF Dispatched(req)
  THEN LET c == ToolCall(Get(ParamsOf(req), "name"), ArgumentsOf(req))
       IN [a \in DOMAIN NoCall |->
             IF a = "op" \/ a \in ArgsOf(c.op) THEN c[a] ELSE NoCall[a]]
  ELSE NoCall

\* the answer of the endpoint when its service call ended with out (None
\* when no call was made)
RpcResponse(req, out) ==
  LET method == Get(req, "method")
      request_id == Get(req, "id")
  IN CASE method = Name("initialize") ->
            Envelope(request_id, InitializeResult, Absent)
       [] method = Name("tools/list") ->
            Envelope(request_id, ToolsListResult, Absent)
       [] method = Name("tools/call") ->
            IF ParamsOf(req) = None
            THEN InternalErrorEnvelope(req, AttributeError)
            ELSE IF Get(ParamsOf(req), "name") \notin ToolNames
            THEN UnknownTool(request_id, Get(ParamsOf(req), "name"))
            ELSE IF ArgumentsOf(req) = None
            THEN InternalErrorEnvelope(req, AttributeError)
            ELSE IF out.k = "raise"
            THEN InternalErrorEnvelope(req, out)
            ELSE Envelope(request_id,
                          ToolResult(FormatResult(RpcCall(req).op, out.v)),
                          Absent)
       [] OTHER -> UnknownMethod(request_id, method)

-----------------------------------------------------------------------------
(* State machine: one request at a time (the handlers are coroutines that  *)
(* block the event loop during upstream calls); the upstream changes only  *)
(* between requests.                                                       *)

Init ==
  /\ status = [key \in Tickets |-> Open]
  /\ workflow \in Workflows
  /\ pc = "idle"
  /\ call = NoCall
  /\ log = <<>>
  /\ outcome = None
  /\ status0 = status
  /\ lastListed = None
  /\ raw = None
  /\ parsed = None
  /\ via = "none"
  /\ received = None
  /\ answered = None

\* a request that came in through front end v ran to its end: the service
\* was called as c (NoCall when it was not called) with result res, and
\* the front end answered resp
FinishVia(v, req, resp, c, res) ==
  /\ pc = "idle"
  /\ pc' = "done"
  /\ call' = c
  /\ log' = res.log
  /\ outcome' = res.outcome
  /\ status0' = status
  /\ status' = res.status
  /\ via' = v
  /\ received' = req
  /\ answered' = resp
  /\ UNCHANGED <<workflow, raw, parsed>>

\* an operation called directly (the tool-style server and the example
\* program call the service methods themselves) ran to its end
Finish(c, res) == FinishVia("service", None, None, c, res)

DoGetTicket ==
  \E key \in KeyArgs, fault \in IssueFaults :
    /\ Finish([NoCall EXCEPT !.op = "get_ticket", !.ticket_key = key],
              GetTicket(status, key, fault))
    /\ UNCHANGED lastListed

DoSearchTickets ==
  \E jql \in JqlArgs, limit \in LimitArgs, fault \in GetFaults :
    /\ Finish([NoCall EXCEPT !.op = "search_tickets", !.jql_query = jql,
                             !.max_results = limit],
              SearchTickets(status, jql, limit, fault))
    /\ UNCHANGED lastListed

DoSearchTicketsByText ==
  \E text \in TextArgs, limit \in LimitArgs, fault \in GetFaults :
    /\ Finish([NoCall EXCEPT !.op = "search_tickets_by_text",
                             !.text = text, !.max_results = limit],
              SearchTicketsByText(status, text, limit, fault))
    /\ UNCHANGED lastListed

DoGetTicketsByProject ==
  \E project \in ProjectArgs, limit \in LimitArgs, fault \in GetFaults :
    /\ Finish([NoCall EXCEPT !.op = "get_tickets_by_project",
                             !.project_key = project, !.max_results = limit],
              GetTicketsByProject(status, project, limit, fault))
    /\ UNCHANGED lastListed

DoGetMyAssignedTickets ==
  \E limit \in LimitArgs, fault \in GetFaults :
    /\ Finish([NoCall EXCEPT !.op = "get_my_assigned_tickets",
                             !.max_results = limit],
              GetMyAssignedTickets(status, limit, fault))
    /\ UNCHANGED lastListed

DoGetRecentlyUpdatedTickets ==
  \E limit \in LimitArgs, fault \in GetFaults :
    /\ Finish([NoCall EXCEPT !.op = "get_recently_updated_tickets",
                             !.max_results = limit],
              GetRecentlyUpdatedTickets(status, limit, fault))
    /\ UNCHANGED lastListed

\* lastListed remembers the latest list returned by list_transitions since
\* the upstream last changed, and whether it was the first such listing of
\* that ticket (n = 1) or a later one (n = 2)
DoGetAvailableTransitions ==
  \E key \in KeyArgs, fault \in GetFaults :
    LET res == GetAvailableTransitions(status, workflow, key, fault)
    IN /\ Finish([NoCall EXCEPT !.op = "get_available_transitions",
                                !.ticket_key = key], res)
       /\ lastListed' =
            IF res.outcome.k # "return" THEN lastListed
            ELSE [key |-> key, list |-> res.outcome.v,
                  n |-> IF lastListed # None /\ lastListed.key = key
                        THEN 2 ELSE 1]

DoChangeTicketStatus ==
  \E key \in KeyArgs, name \in StatusArgs, transitions \in GetFaults :
    \* a call is made only when the one before it was answered well, so
    \* faults of later calls are drawn only then
    \E post \in IF transitions = "ok" THEN PostFaults ELSE {"ok"} :
      \E issue \in IF post = "ok" THEN IssueFaults ELSE {"ok"} :
        LET res == ChangeTicketStatus(status, workflow, key, name,
                                      [transitions |-> transitions,
                                       post |-> post, issue |-> issue])
        IN /\ Finish([NoCall EXCEPT !.op = "change_ticket_status",
                                    !.ticket_key = key,
                                    !.status_name = name], res)
           /\ lastListed' = IF res.status # status THEN None
                            ELSE lastListed

(* Requests of the HTTP server: the eight routes and the RPC endpoint      *)

\* path segments are never empty; query strings may be
RouteKeys == {Str(<<" ", "\t">>), P1}
RouteProjects == {Str(<<" ">>), Str(<<"P">>)}
RouteJqls == JqlArgs \ {None}
RouteTexts == TextArgs \ {None}
RouteLimits == {Absent, PyInt(5)}
RouteStatuses == {Absent, Str(<<>>), Str(<<"d","o","n","e">>),
                  Str(<<"N","o","p","e">>)}
RouteBodies == { Obj([status |-> s]) : s \in RouteStatuses }

\* the arguments object of a tools/call, for each tool
RpcKeys == {Absent, P1}
RpcStatuses == {Absent, Str(<<"d","o","n","e">>), Str(<<"N","o","p","e">>)}
RpcLimits == {Absent, PyInt(5)}
RpcArguments(op) ==
  CASE op \in {"get_ticket", "get_available_transitions"} ->
         { [EmptyArguments EXCEPT !.f.ticket_key = key] : key \in RpcKeys }
    [] op = "change_ticket_status" ->
         { [EmptyArguments EXCEPT !.f.ticket_key = key,
                                  !.f.status_name = name] :
             key \in RpcKeys, name \in RpcStatuses }
    [] op = "search_tickets" ->
         { [EmptyArguments EXCEPT !.f.jql_query = jql,
                                  !.f.max_results = limit] :
             jql \in {Absent, Str(<<"k","e","y"," ","="," ","P","-","1">>)},
             limit \in RpcLimits }
    [] op = "search_tickets_by_text" ->
         { [EmptyArguments EXCEPT !.f.text = text,
                                  !.f.max_results = limit] :
             text \in {Absent, Str(<<"b","u","g">>)}, limit \in RpcLimits }
    [] op = "get_tickets_by_project" ->
         { [EmptyArguments EXCEPT !.f.project_key = project,
                                  !.f.max_results = limit] :
             project \in {Absent, Str(<<"P">>)}, limit \in RpcLimits }
    [] OTHER ->
         { [EmptyArguments EXCEPT !.f.max_results = limit] :
             limit \in RpcLimits }

\* params that carry no arguments object
RpcBareParams ==
  {Absent, None}
  \cup { Obj([name |-> name, arguments |-> arguments]) :
           name \in {Absent, Name("delete_ticket")}
                    \cup { Name(tool) : tool \in DOMAIN ToolOps },
           arguments \in {Absent, None} }

\* params that name a tool and carry its arguments
RpcToolParams ==
  UNION { { Obj([name |-> Name(tool), arguments |-> arguments]) :
              arguments \in RpcArguments(ToolOps[tool]) } :
          tool \in DOMAIN ToolOps }

RpcIds == {Absent, PyInt(1)}

\* the envelopes sent to the endpoint; the id is left out only of the
\* requests without an arguments object
RpcRequests ==
  { Obj([method |-> method, params |-> Absent, id |-> id]) :
      method \in {Absent, Name("initialize"), Name("tools/list"),
                  Name("resources/list")},
      id \in RpcIds }
  \cup { Obj([method |-> Name("tools/call"), params |-> params,
              id |-> id]) :
           params \in RpcBareParams, id \in RpcIds }
  \cup { Obj([method |-> Name("tools/call"), params |-> params,
              id |-> PyInt(1)]) :
           params \in RpcToolParams }

\* lastListed after a front end's request (see DoGetAvailableTransitions)
ListedAfter(c, res) ==
  CASE c.op = "get_available_transitions" /\ res.outcome.k = "return" ->
         [key |-> c.ticket_key, list |-> res.outcome.v,
          n |-> IF lastListed # None /\ lastListed.key = c.ticket_key
                THEN 2 ELSE 1]
    [] c.op = "change_ticket_status" /\ res.status # status -> None
    [] OTHER -> lastListed

\* a route handler runs on request req
Route(req) ==
  \E faults \in FaultPlans(RouteCall(req).op) :
    LET c == RouteCall(req)
        res == ServiceCall(c, status, workflow, faults)
    IN /\ FinishVia("route", req, RouteResponse(req, res.outcome), c, res)
       /\ lastListed' = ListedAfter(c, res)

\* GET /api/jira/tickets/recent
RouteGetRecentTickets ==
  \E limit \in RouteLimits :
    Route([NoRequest EXCEPT !.route = "get_recently_updated_tickets",
                            !.limit = limit])

\* GET /api/jira/tickets/assigned
RouteGetMyAssignedTickets ==
  \E limit \in RouteLimits :
    Route([NoRequest EXCEPT !.route = "get_my_assigned_tickets",
                            !.limit = limit])

\* GET /api/jira/tickets/project/{project_key}
RouteGetTicketsByProject ==
  \E project \in RouteProjects, limit \in RouteLimits :
    Route([NoRequest EXCEPT !.route = "get_tickets_by_project",
                            !.project_key = project, !.limit = limit])

\* GET /api/jira/tickets/search
RouteSearchTickets ==
  \E jql \in RouteJqls, limit \in RouteLimits :
    Route([NoRequest EXCEPT !.route = "search_tickets", !.jql = jql,
                            !.limit = limit])

\* GET /api/jira/tickets/search/text
RouteSearchTicketsByText ==
  \E text \in RouteTexts, limit \in RouteLimits :
    Route([NoRequest EXCEPT !.route = "search_tickets_by_text",
                            !.text = text, !.limit = limit])

\* GET /api/jira/ticket/{ticket_key}
RouteGetTicket ==
  \E key \in RouteKeys :
    Route([NoRequest EXCEPT !.route = "get_ticket", !.ticket_key = key])

\* GET /api/jira/ticket/{ticket_key}/transitions
RouteGetTicketTransitions ==
  \E key \in RouteKeys :
    Route([NoRequest EXCEPT !.route = "get_available_transitions",
                            !.ticket_key = key])

\* POST /api/jira/ticket/{ticket_key}/status
RouteChangeTicketStatus ==
  \E key \in RouteKeys, body \in RouteBodies :
    Route([NoRequest EXCEPT !.route = "change_ticket_status",
                            !.ticket_key = key, !.body = body])

\* POST /
McpRpcEndpoint ==
  \E req \in RpcRequests :
    \E faults \in FaultPlans(RpcCall(req).op) :
      LET c == RpcCall(req)
          res == ServiceCall(c, status, workflow, faults)
      IN /\ FinishVia("rpc", req, RpcResponse(req, res.outcome), c, res)
         /\ lastListed' = ListedAfter(c, res)

\* the caller has received the outcome; the service keeps nothing
Deliver ==
  /\ pc = "done"
  /\ pc' = "idle"
  /\ call' = NoCall
  /\ log' = <<>>
  /\ outcome' = None
  /\ status0' = status
  /\ via' = "none"
  /\ received' = None
  /\ answered' = None
  /\ UNCHANGED <<status, workflow, lastListed, raw, parsed>>

\* somebody else edits the workflow or moves a ticket, between requests
UpstreamChange ==
  /\ pc = "idle"
  /\ \/ /\ workflow' \in Workflows \ {workflow}
        /\ UNCHANGED status
     \/ /\ \E key \in Tickets, name \in StatusNames :
             /\ status[key] # name
             /\ status' = [status EXCEPT ![key] = name]
        /\ UNCHANGED workflow
  /\ status0' = status'
  /\ lastListed' = None
  /\ UNCHANGED <<pc, call, log, outcome, raw, parsed, via, received,
               answered>>

Next ==
  \/ DoGetTicket
  \/ DoSearchTickets
  \/ DoSearchTicketsByText
  \/ DoGetTicketsByProject
  \/ DoGetMyAssignedTickets
  \/ DoGetRecentlyUpdatedTickets
  \/ DoGetAvailableTransitions
  \/ DoChangeTicketStatus
  \/ RouteGetRecentTickets
  \/ RouteGetMyAssignedTickets
  \/ RouteGetTicketsByProject
  \/ RouteSearchTickets
  \/ RouteSearchTicketsByText
  \/ RouteGetTicket
  \/ RouteGetTicketTransitions
  \/ RouteChangeTicketStatus
  \/ McpRpcEndpoint
  \/ Deliver
  \/ UpstreamChange

Spec == Init /\ [][Next]_vars

-----------------------------------------------------------------------------
(* The parser applied to every raw issue *)

InitParser ==
  /\ status = [key \in Tickets |-> Open]
  /\ workflow = <<>>
  /\ pc = "idle"
  /\ call = NoCall
  /\ log = <<>>
  /\ outcome = None
  /\ status0 = status
  /\ lastListed = None
  /\ raw \in RawIssues
  /\ parsed = None
  /\ via = "none"
  /\ received = None
  /\ answered = None

DoParseTicket ==
  /\ parsed = None
  /\ parsed' = ParseTicket(raw)
  /\ UNCHANGED <<status, workflow, pc, call, log, outcome, status0,
                 lastListed, raw, via, received, answered>>

NextParser == DoParseTicket

SpecParser == InitParser /\ [][NextParser]_vars

-----------------------------------------------------------------------------
(* Vocabulary of the properties *)

ChangeDone == pc = "done" /\ call.op = "change_ticket_status"

\* absent, empty or made of whitespace only
BlankArgument(x) ==
  x = None \/ \A i \in 1..Len(x.s) : x.s[i] \in Whitespace

Failed == outcome.k = "raise" \/ outcome.v.success = FALSE
Succeeded == outcome.k = "return" /\ outcome.v.success = TRUE

\* the transitions fetch of the invocation was answered with a list
Fetched ==
  /\ Len(log) >= 1
  /\ log[1].method = "GET" /\ log[1].path = "transitions"
  /\ log[1].resp.k = "http" /\ log[1].resp.code = 200
  /\ \A i \in 1..Len(log[1].resp.body.f.transitions.items) :
        log[1].resp.body.f.transitions.items[i].f.to # None

\* the upstream list of the fetch, and the names of its entries ("no
\* value" is None)
Offered == log[1].resp.body.f.transitions.items
ActionName(t) == Get(t, "name")
TargetName(t) == IF t.f.to = Absent THEN None ELSE Get(t.f.to, "name")

SameIgnoringCase(a, b) ==
  /\ Len(a) = Len(b)
  /\ \A i \in 1..Len(a) : LowerChar(a[i]) = LowerChar(b[i])

\* the entry matches the desired name by target status or by action name
Matching(t, desired) ==
  \/ TargetName(t) # None /\ SameIgnoringCase(TargetName(t).s, desired.s)
  \/ ActionName(t) # None /\ SameIgnoringCase(ActionName(t).s, desired.s)

MatchingIndexes == {i \in 1..Len(Offered) : Matching(Offered[i],
                                                     call.status_name)}
FirstMatching == CHOOSE i \in MatchingIndexes : \A j \in MatchingIndexes : i <= j

Posts == {i \in 1..Len(log) : log[i].method = "POST"}

\* the invocation got as far as resolving: arguments valid, list fetched
Resolving ==
  /\ ChangeDone
  /\ ~BlankArgument(call.ticket_key)
  /\ ~BlankArgument(call.status_name)
  /\ Fetched

-----------------------------------------------------------------------------
(* C1: whenever change_status has fetched a list in which some transition  *)
(* matches the desired name (target status or action name, ignoring        *)
(* case), it POSTs exactly the id of the matching transition with the      *)
(* smallest index.                                                         *)
C1_FirstMatchWins ==
  (Resolving /\ MatchingIndexes # {}) =>
     /\ Posts = {2}
     /\ log[2].id = Get(Offered[FirstMatching], "id")

(* C2: whenever no fetched transition matches, change_status raises the    *)
(* not-available error listing all target names and all action names in    *)
(* upstream order, and sends no POST.                                      *)
C2_NotFoundEnumerates ==
  (Resolving /\ MatchingIndexes = {}) =>
     /\ Posts = {}
     /\ outcome.k = "raise" /\ outcome.exc = "ValueError"
     /\ outcome.msg.fmt = "not_available"
     /\ outcome.msg.available_statuses =
          [i \in 1..Len(Offered) |-> TargetName(Offered[i])]
     /\ outcome.msg.available_transitions =
          [i \in 1..Len(Offered) |-> ActionName(Offered[i])]

(* C3: the upstream calls of a change_status invocation are a prefix of    *)
(* GET transitions, POST transition, GET issue, all for the invocation's   *)
(* ticket key; a POST follows a successful fetch of that invocation and    *)
(* carries the id of a matching transition of that fetch.                  *)
C3_CallOrder ==
  ChangeDone =>
     /\ Len(log) <= 3
     /\ \A i \in 1..Len(log) : log[i].key = call.ticket_key
     /\ Len(log) >= 1 => log[1].method = "GET" /\ log[1].path = "transitions"
     /\ Len(log) >= 2 =>
          /\ log[2].method = "POST" /\ log[2].path = "transitions"
          /\ Fetched
          /\ \E i \in MatchingIndexes : log[2].id = Get(Offered[i], "id")
     /\ Len(log) >= 3 => log[3].method = "GET" /\ log[3].path = "issue"

\* an invocation for the second ticket that made all three calls
C3_Witness ==
  /\ ChangeDone
  /\ Len(log) = 3
  /\ call.ticket_key = P2
  /\ log[2].id = Str(<<"2","1","2">>)

(* C4 as claimed: whenever change_status ends in a failure, the ticket's   *)
(* upstream status is the same as before the call.                         *)
C4_NoMutationOnFailure ==
  (ChangeDone /\ Failed) => status = status0

(* C4 as amended: a failed change_status has changed the upstream status   *)
(* only if the POST was sent and was either acknowledged with 204, the     *)
(* re-fetch then being attempted and failing, or timed out.                *)
C4_MutationOnlyAfterPost ==
  (ChangeDone /\ Failed /\ status # status0) =>
     /\ Len(log) >= 2 /\ log[2].method = "POST"
     /\ \/ log[2].resp.k = "timeout" /\ Len(log) = 2
        \/ /\ log[2].resp.k = "http" /\ log[2].resp.code = 204
           /\ Len(log) = 3 /\ log[3].method = "GET" /\ log[3].path = "issue"
           /\ outcome.k = "raise"

\* the POST was acknowledged, the re-fetch failed, the ticket has moved
C4_Witness ==
  /\ ChangeDone /\ Failed
  /\ status # status0
  /\ Len(log) = 3
  /\ log[2].resp.code = 204
  /\ log[3].resp.k = "timeout"

(* C5: change_status returns success=true only if the POST was             *)
(* acknowledged with 204 and the following re-fetch of the ticket          *)
(* succeeded.                                                              *)
C5_SuccessOnlyWhenComplete ==
  (ChangeDone /\ Succeeded) =>
     /\ Len(log) = 3
     /\ log[2].method = "POST"
     /\ log[2].resp.k = "http" /\ log[2].resp.code = 204
     /\ log[3].method = "GET" /\ log[3].path = "issue"
     /\ log[3].resp.k = "http" /\ log[3].resp.code = 200
     /\ log[3].resp.body.f.fields # None

C5_Witness ==
  /\ ChangeDone /\ Succeeded
  /\ status # status0

\* the POST of the invocation was answered with a status other than 204
PostNotAcknowledged ==
  /\ ChangeDone
  /\ Len(log) >= 2
  /\ log[2].method = "POST"
  /\ log[2].resp.k = "http" /\ log[2].resp.code # 204

(* C6 as claimed: for every POST response status other than 204,           *)
(* change_status raises an upstream error instead of returning an outcome  *)
(* record.                                                                 *)
C6_Non204Raises ==
  PostNotAcknowledged => outcome.k = "raise" /\ outcome.exc = "HTTPError"

(* C6 as amended: for a POST response status other than 204 change_status  *)
(* never re-fetches and never reports success; it raises the upstream      *)
(* error when the status is 4xx or 5xx and otherwise (e.g. 200) returns    *)
(* the outcome record with success=false.                                  *)
C6_Non204NeverSucceeds ==
  PostNotAcknowledged =>
     /\ Len(log) = 2
     /\ IF log[2].resp.code >= 400 /\ log[2].resp.code < 600
        THEN outcome = HTTPError(log[2].resp.code)
        ELSE outcome = Return([success |-> FALSE,
                               message |-> [fmt |-> "unknown_error"]])

C6_Witness ==
  /\ PostNotAcknowledged
  /\ log[2].resp.code = 200
  /\ outcome.k = "return"

\* the required string arguments of the operation called, in the order
\* they are validated, with the parameter names
RequiredArgs ==
  CASE call.op = "get_ticket" -> <<<<"ticket_key", call.ticket_key>>>>
    [] call.op = "search_tickets" -> <<<<"jql_query", call.jql_query>>>>
    [] call.op = "search_tickets_by_text" -> <<<<"text", call.text>>>>
    [] call.op = "get_tickets_by_project" ->
         <<<<"project_key", call.project_key>>>>
    [] call.op = "get_available_transitions" ->
         <<<<"ticket_key", call.ticket_key>>>>
    [] call.op = "change_ticket_status" ->
         <<<<"ticket_key", call.ticket_key>>,
           <<"status_name", call.status_name>>>>
    [] OTHER -> <<>>

BlankIndexes == {i \in 1..Len(RequiredArgs) : BlankArgument(RequiredArgs[i][2])}

(* C7: an operation called with a required string argument that is        *)
(* absent, empty or whitespace-only raises the "<parameter> is required"   *)
(* error naming the first blank parameter, and makes no upstream call.     *)
C7_MissingArgument ==
  (pc = "done" /\ BlankIndexes # {}) =>
     /\ log = <<>>
     /\ outcome.k = "raise" /\ outcome.exc = "ValueError"
     /\ outcome.msg.fmt = "required"
     /\ \E i \in BlankIndexes :
          /\ outcome.msg.param = RequiredArgs[i][1]
          /\ \A j \in BlankIndexes : i <= j

\* a whitespace-only status name with a valid ticket key
C7_Witness ==
  /\ ChangeDone
  /\ call.ticket_key = P1
  /\ call.status_name = Str(<<" ">>)
  /\ outcome.k = "raise"
  /\ log = <<>>

\* the status name in a raw issue, None when fields or status is missing
RawStatusName(issue) ==
  IF issue.f.fields \in {Absent, None} THEN None
  ELSE IF issue.f.fields.f.status \in {Absent, None} THEN None
  ELSE Get(issue.f.fields.f.status, "name")

(* C8: on success the outcome carries the key, status and summary of the   *)
(* issue returned by the re-fetch made after the transition.               *)
C8_ReportsRefetchedTicket ==
  (ChangeDone /\ Succeeded) =>
     /\ outcome.v.ticket.key = Get(log[Len(log)].resp.body, "key")
     /\ outcome.v.ticket.status = RawStatusName(log[Len(log)].resp.body)
     /\ outcome.v.ticket.summary =
          Get(log[Len(log)].resp.body.f.fields, "summary")

\* the desired name was an action name; the status reported is the new one
C8_Witness ==
  /\ ChangeDone /\ Succeeded
  /\ call.status_name = Str(<<"C","L","O","S","E">>)
  /\ outcome.v.ticket.status = Done
  /\ status0[call.ticket_key] = Open

ListDone ==
  /\ pc = "done"
  /\ call.op = "get_available_transitions"
  /\ outcome.k = "return"

(* C9: list_transitions returns one entry per upstream transition, in      *)
(* upstream order, and two calls for the same ticket with no upstream      *)
(* change in between return the same list.                                 *)
C9_ListIdempotent ==
  /\ [](ListDone =>
          /\ Len(outcome.v) = Len(Offered)
          /\ \A i \in 1..Len(Offered) :
               /\ outcome.v[i].id = Get(Offered[i], "id")
               /\ outcome.v[i].name = ActionName(Offered[i])
               /\ outcome.v[i].to.name = TargetName(Offered[i]))
  /\ [][(/\ lastListed # None
         /\ lastListed' # None
         /\ lastListed'.key = lastListed.key)
        => lastListed'.list = lastListed.list]_vars

\* a second listing of a list of two different entries
C9_Witness ==
  /\ ListDone
  /\ Len(outcome.v) = 2
  /\ outcome.v[1].id # outcome.v[2].id
  /\ lastListed # None /\ lastListed.key = call.ticket_key
  /\ lastListed.n = 2

\* the sub-objects of the raw issue that are missing or null
MissingSubs ==
  IF raw.f.fields \in {Absent, None} THEN SubNames
  ELSE {n \in SubNames : raw.f.fields.f[n] \in {Absent, None}}

(* C10: for every raw issue in which fields or a sub-object is absent or   *)
(* null, the parser returns a ticket whose corresponding field is None     *)
(* and raises nothing.                                                     *)
C10_ParserTolerant ==
  parsed # None =>
     /\ parsed.k = "return"
     /\ \A n \in MissingSubs : parsed.v.fields[n] = None

-----------------------------------------------------------------------------
SearchOps == {"search_tickets", "search_tickets_by_text",
              "get_tickets_by_project", "get_my_assigned_tickets",
              "get_recently_updated_tickets"}

\* a search operation ran and reached the upstream
SearchSent == pc = "done" /\ call.op \in SearchOps /\ log # <<>>

(* C11: every search operation that reaches the upstream issues exactly    *)
(* one search whose maxResults is the caller's limit when one is supplied  *)
(* (0 included) and 50 when none is.                                       *)
C11_LimitPassedThrough ==
  SearchSent =>
     /\ Len(log) = 1
     /\ log[1].path = "search"
     /\ log[1].maxResults =
          IF call.max_results = None THEN PyInt(50) ELSE call.max_results

\* recent(limit=0): the limit sent is 0, not the default
C11_Witness ==
  /\ SearchSent
  /\ call.op = "get_recently_updated_tickets"
  /\ call.max_results = PyInt(0)
  /\ log[1].maxResults = PyInt(0)

OrderDirective ==
  <<" ","O","R","D","E","R"," ","B","Y"," ","u","p","d","a","t","e","d",
    " ","D","E","S","C">>
SevenDayWindow ==
  <<"u","p","d","a","t","e","d"," ",">","="," ","-","7","d">>

EndsWith(s, suffix) ==
  /\ Len(s) >= Len(suffix)
  /\ SubSeq(s, Len(s) - Len(suffix) + 1, Len(s)) = suffix

(* C12: the queries of text-search, project-search, assignee-search and    *)
(* recency-search end with the directive ORDER BY updated DESC, the        *)
(* recency query is the 7-day window followed by that directive, and a     *)
(* free JQL string is sent unchanged.                                      *)
C12_QueryOrdering ==
  SearchSent =>
     /\ call.op # "search_tickets" => EndsWith(log[1].jql.s, OrderDirective)
     /\ call.op = "get_recently_updated_tickets" =>
          log[1].jql.s = SevenDayWindow \o OrderDirective
     /\ call.op = "search_tickets" => log[1].jql = call.jql_query

C12_Witness ==
  /\ SearchSent
  /\ call.op = "get_recently_updated_tickets"
  /\ log[1].resp.k = "http" /\ log[1].resp.code = 200

\* the upstream call failed: no answer, or an error status
CallFailed(entry) ==
  entry.resp.k = "timeout" \/ entry.resp.code >= 400

(* C17: get, the search operations and list_transitions make at most one   *)
(* upstream call, change_status at most three (GET transitions, POST, GET  *)
(* issue, each at most once), and no call follows a failed one, whose      *)
(* failure is raised to the caller.                                        *)
C17_NoRetry ==
  pc = "done" =>
     /\ call.op # "change_ticket_status" => Len(log) <= 1
     /\ call.op = "change_ticket_status" =>
          /\ Len(log) <= 3
          /\ \A i, j \in 1..Len(log) :
               (i # j) => <<log[i].method, log[i].path>> #
                          <<log[j].method, log[j].path>>
     /\ \A i \in 1..Len(log) :
          CallFailed(log[i]) => i = Len(log) /\ outcome.k = "raise"

\* the POST failed after a successful fetch: two calls, no third
C17_Witness ==
  /\ ChangeDone
  /\ Len(log) = 2
  /\ log[2].resp.k = "http" /\ log[2].resp.code = 500
  /\ outcome.k = "raise"

\* the upstream answered the transitions fetch with a list
ListAnswered ==
  /\ Len(log) >= 1
  /\ log[1].path = "transitions" /\ log[1].method = "GET"
  /\ log[1].resp.k = "http" /\ log[1].resp.code = 200

(* C19: for every list the upstream offers, entries with an absent or      *)
(* null name or target included, list_transitions returns every entry      *)
(* with None for the missing value, and change_status ends by POSTing a    *)
(* matching transition or by raising the not-available error.              *)
C19_TotalOverPartialTransitions ==
  (pc = "done" /\ ListAnswered) =>
     /\ call.op = "get_available_transitions" =>
          /\ outcome.k = "return"
          /\ Len(outcome.v) = Len(log[1].resp.body.f.transitions.items)
     /\ call.op = "change_ticket_status" =>
          \/ Posts # {}
          \/ outcome.k = "raise" /\ outcome.exc = "ValueError"
             /\ outcome.msg.fmt = "not_available"

-----------------------------------------------------------------------------
(* The front ends of the HTTP server *)

RpcDone == pc = "done" /\ via = "rpc"
RouteDone == pc = "done" /\ via = "route"

KnownMethods == {Name("initialize"), Name("tools/list"), Name("tools/call")}

\* the tool name the request carries, None when it carries none
RequestedTool ==
  IF received.f.params \in {Absent, None} THEN None
  ELSE Get(received.f.params, "name")

UnknownMethodRequested == Get(received, "method") \notin KnownMethods
UnknownToolRequested ==
  /\ Get(received, "method") = Name("tools/call")
  /\ RequestedTool \notin ToolNames

ErrorCode == IF answered.error = Absent THEN None
             ELSE PyInt(answered.error.code)

\* the service was called and its operation failed
OperationFailed == call.op # "none" /\ outcome.k = "raise"

(* C13: the RPC endpoint answers every request with an envelope that       *)
(* echoes the request's id (null when there is none) and has exactly one   *)
(* of result and error; an unknown method or tool name gets an error with  *)
(* a numeric code and a message.                                           *)
C13_AlwaysEnvelope ==
  RpcDone =>
     /\ answered.jsonrpc = "2.0"
     /\ answered.id = Get(received, "id")
     /\ (answered.result = Absent) # (answered.error = Absent)
     /\ (UnknownMethodRequested \/ UnknownToolRequested) =>
          /\ answered.error # Absent
          /\ answered.error.code \in Int
          /\ answered.error.message # Absent

\* a tools/call with an id whose upstream call timed out
C13_Witness ==
  /\ RpcDone
  /\ received.f.id = PyInt(1)
  /\ log # <<>> /\ log[Len(log)].resp.k = "timeout"
  /\ answered.error # Absent /\ answered.id = PyInt(1)

(* C14 as stated: -32601 exactly when the method or the tool name is       *)
(* unknown, -32603 exactly when a dispatched operation failed.             *)
C14_CodesSeparateClasses ==
  RpcDone =>
     /\ ErrorCode = PyInt(-32601) <=>
          (UnknownMethodRequested \/ UnknownToolRequested)
     /\ ErrorCode = PyInt(-32603) <=> OperationFailed

\* params, or the arguments of a known tool, is JSON null
NullParams ==
  /\ Get(received, "method") = Name("tools/call")
  /\ \/ received.f.params = None
     \/ /\ RequestedTool \in ToolNames
        /\ received.f.params.f.arguments = None

(* C14 amended: -32601 exactly when the method is unknown or a tools/call  *)
(* whose params is not null names no known tool; -32603 exactly when       *)
(* handling raised: a dispatched operation failed, or params or the        *)
(* arguments of a known tool is null.                                      *)
C14_CodesByHandling ==
  RpcDone =>
     /\ ErrorCode = PyInt(-32601) <=>
          \/ UnknownMethodRequested
          \/ UnknownToolRequested /\ received.f.params # None
     /\ ErrorCode = PyInt(-32603) <=> (OperationFailed \/ NullParams)

\* a known tool called with null arguments: internal error, no operation
C14_Witness ==
  /\ RpcDone
  /\ RequestedTool \in ToolNames
  /\ received.f.params.f.arguments = None
  /\ call = NoCall
  /\ ErrorCode = PyInt(-32603)

\* the required string arguments a route request carries
RouteRequired ==
  CASE received.route \in {"get_ticket", "get_available_transitions"} ->
         {received.ticket_key}
    [] received.route = "change_ticket_status" ->
         {received.ticket_key, Get(received.body, "status")}
    [] received.route = "search_tickets" -> {received.jql}
    [] received.route = "search_tickets_by_text" -> {received.text}
    [] received.route = "get_tickets_by_project" -> {received.project_key}
    [] OTHER -> {}

(* C15: a route request with a blank required argument is answered with a *)
(* client error (4xx), never with a server error.                          *)
C15_BlankArgumentClientError ==
  (RouteDone /\ \E x \in RouteRequired : Blank(x)) =>
     answered.status_code \in 400..499

ChangeRouteDone == RouteDone /\ received.route = "change_ticket_status"

TransitionNotFound ==
  /\ outcome.k = "raise" /\ outcome.exc = "ValueError"
  /\ outcome.msg.fmt = "not_available"

UpstreamFailure == \E i \in 1..Len(log) : CallFailed(log[i])

C18_StatusRequired ==
  (ChangeRouteDone /\ ~Truthy(Get(received.body, "status"))) =>
     /\ answered.status_code = 400
     /\ answered.body.detail = StatusRequired
     /\ call = NoCall
     /\ log = <<>>

\* the logical arguments of a request: the operation and what the caller
\* supplied for each argument (Absent when left out)
Logical ==
  IF via = "route"
  THEN [op |-> received.route,
        ticket_key |-> received.ticket_key,
        status |-> IF received.body = Absent THEN Absent
                   ELSE received.body.f.status,
        jql |-> received.jql, text |-> received.text,
        project_key |-> received.project_key, limit |-> received.limit]
  ELSE [op |-> ToolOps[RequestedTool.name],
        ticket_key |-> ArgumentsOf(received).f.ticket_key,
        status |-> ArgumentsOf(received).f.status_name,
        jql |-> ArgumentsOf(received).f.jql_query,
        text |-> ArgumentsOf(received).f.text,
        project_key |-> ArgumentsOf(received).f.project_key,
        limit |-> ArgumentsOf(received).f.max_results]

\* the tools/call request that carries logical arguments L
AsRpc(L) ==
  Obj([method |-> Name("tools/call"),
       params |->
         Obj([name |-> Name(CHOOSE n \in DOMAIN ToolOps : ToolOps[n] = L.op),
              arguments |->
                Obj([ticket_key |-> L.ticket_key, status_name |-> L.status,
                     jql_query |-> L.jql, text |-> L.text,
                     project_key |-> L.project_key,
                     max_results |-> L.limit])]),
       id |-> Absent])

\* the route request that carries logical arguments L
AsRoute(L) ==
  [route |-> L.op, ticket_key |-> L.ticket_key, jql |-> L.jql,
   text |-> L.text, project_key |-> L.project_key, limit |-> L.limit,
   body |-> IF L.op = "change_ticket_status" THEN Obj([status |-> L.status])
            ELSE Absent]

\* a route request can carry L: its path and query parameters are there
Routable(L) ==
  /\ L.op \in {"get_ticket", "get_available_transitions",
               "change_ticket_status"} => L.ticket_key # Absent
  /\ L.op = "search_tickets" => L.jql # Absent
  /\ L.op = "search_tickets_by_text" => L.text # Absent
  /\ L.op = "get_tickets_by_project" => L.project_key # Absent

\* the service call the other front end makes for the same arguments
CounterpartCall ==
  IF via = "route" THEN RpcCall(AsRpc(Logical))
  ELSE RouteCall(AsRoute(Logical))

\* a request of one front end that the other one can carry too
Comparable ==
  \/ RouteDone
  \/ RpcDone /\ Dispatched(received) /\ Routable(Logical)

\* the service call is the counterpart's, and so is the search sent
SameAsCounterpart ==
  /\ call = CounterpartCall
  /\ SearchSent =>
       log[1].maxResults = PyInt(SearchLimit(CounterpartCall.max_results))

(* C20 as stated: a route request and a tools/call with the same logical   *)
(* arguments, the limit left out included, make the same service call and  *)
(* the same upstream request.                                              *)
C20_AdaptersEquivalent == Comparable => SameAsCounterpart

\* the limit is supplied where the operation takes one, and the status of
\* a change is not empty
FullySupplied(L) ==
  /\ L.op \in SearchOps => L.limit # Absent
  /\ L.op = "change_ticket_status" =>
       L.status # Absent /\ Truthy(L.status)

(* C20 amended: the two front ends make the same service call and the      *)
(* same upstream request for the same logical arguments whenever the       *)
(* limit is supplied and the status of a change is not empty.              *)
C20_EquivalentWhenSupplied ==
  (Comparable /\ FullySupplied(Logical)) => SameAsCounterpart

\* a route search with limit 5 sends maxResults 5, as the tool call does
C20_Witness ==
  /\ RouteDone
  /\ received.route = "get_recently_updated_tickets"
  /\ received.limit = PyInt(5)
  /\ SearchSent /\ log[1].maxResults = PyInt(5)
  /\ RpcCall(AsRpc(Logical)).max_results = PyInt(5)

====
